---- MODULE Spec2Model ----
(***************************************************************************)
(* Model of src/bot.py: a Telegram bot served by a Flask webhook.  Every   *)
(* POST /webhook is handled by one server thread, which dispatches the     *)
(* update to start, help_command, button_handler or handle_message; in AI  *)
(* mode handle_message calls get_ai_response, which keeps a per-user       *)
(* history (a Python list held in the dict user_sessions) of at most 10    *)
(* turns and calls the DeepSeek completions endpoint.                      *)
(*                                                                         *)
(* Python lists are objects: `history = user_sessions[user_id]` copies a   *)
(* reference, `history.append` changes the object in place and             *)
(* `history = history[-10:]` makes a new object.  The model keeps a heap   *)
(* of list objects so that two threads can share or lose a list.           *)
(***************************************************************************)
EXTENDS Integers, Sequences, FiniteSets, TLC

\* ------------------------------------------------------------ bounds
MaxUpdates == 7          \* webhook POSTs accepted in one run
MaxOverlaps == 1         \* updates accepted while another one is being handled

\* ------------------------------------------------------------ inputs
Users == {"u1", "u2"}
Threads == {1, 2}        \* server threads handling webhook requests
SeqThreads == {1}        \* one request at a time
Texts == {"t1"}          \* message texts a user may send
Answers == {"a1", "aLong"}                       \* texts DeepSeek may generate
Failures == {"timeout", "http_error", "malformed"}   \* ways the call fails
EmptyAnswer == ""        \* a 2xx response whose content is the empty string
Buttons == {"ask_ai", "about", "dev_info", "contact", "other"}
Commands == {"start", "help_command"}

\* ------------------------------------------------------------ program constants
HISTORY_CAP == 10
MAX_MESSAGE_LENGTH == 4096
FALLBACK == "AI service temporarily unavailable."
START_HINT == "Please use /start to access the main menu and select an option."
INTERNAL_ERROR == "internal error"   \* the generic apology of spec 4.5 step 7

None == 0
ObjIds == 1 .. (Cardinality(Users) + Cardinality(Threads) + 1)
NoUpdate == [kind |-> "none", user |-> "none", data |-> "none", bot |-> FALSE]

VARIABLES
    user_sessions,   \* user -> list object holding the history, None if absent
    user_ai_mode,    \* user -> TRUE once "ask_ai" was pressed
    heap,            \* list object -> its turns
    pc,              \* thread -> position in the handling of its update
    update,          \* thread -> the update being handled
    history,         \* thread -> the local variable `history` (a reference)
    response,        \* thread -> assistant_msg / value of get_ai_response
    typing,          \* thread -> typing indicators emitted in this cycle
    gateway,         \* thread -> the DeepSeek calls of this cycle
    replies,         \* thread -> reply_text / edit_message_text calls of this cycle
    errors,          \* thread -> what this cycle logged with logger.error
    status,          \* thread -> HTTP status returned by webhook, 0 while running
    entered,         \* thread -> stored history when get_ai_response was entered
    group,           \* thread -> number of get_ai_response calls overlapping this one
    base,            \* thread -> stored history when its group began
    appended,        \* user -> every turn ever appended for the user, in order
    nupd,            \* updates accepted so far
    novl             \* updates accepted while another one was being handled

shared == <<user_sessions, user_ai_mode, heap>>
cycle == <<typing, gateway, replies, errors, status>>
ghost == <<entered, group, base, appended>>
vars == <<user_sessions, user_ai_mode, heap, pc, update, history, response,
          typing, gateway, replies, errors, status, entered, group, base,
          appended, nupd, novl>>

\* ------------------------------------------------------------ helpers
Turn(role, content) == [role |-> role, content |-> content]

\* history[-10:]
LastN(s, n) == IF Len(s) <= n THEN s ELSE SubSeq(s, Len(s) - n + 1, Len(s))

\* len(text) of the symbolic texts
CharLen(text) == IF text = "aLong" THEN MAX_MESSAGE_LENGTH + 1
                 ELSE IF text = "" THEN 0 ELSE 1

\* user_sessions[user_id] as a sequence (empty when the key is absent)
Stored(u) == IF user_sessions[u] = None THEN <<>> ELSE heap[user_sessions[u]]

Referenced(us, hi, o) == (\E u \in Users : us[u] = o) \/ (\E t \in Threads : hi[t] = o)

\* a list object nobody refers to
NewObj == CHOOSE o \in ObjIds :
            /\ ~Referenced(user_sessions, history, o)
            /\ \A p \in ObjIds : ~Referenced(user_sessions, history, p) => o <= p

\* reference counting: a list nobody refers to is freed
Collect(us, hi, hp) == [o \in ObjIds |-> IF Referenced(us, hi, o) THEN hp[o] ELSE <<>>]

Idle(t) == pc[t] \in {"idle", "done"}
InGar(t) == pc[t] \in {"gar_read", "gar_append_user", "gar_len_user", "gar_trim_user",
                       "gar_post", "gar_append_asst", "gar_len_asst", "gar_trim_asst"}

Init ==
    /\ user_sessions = [u \in Users |-> None]
    /\ user_ai_mode = [u \in Users |-> FALSE]
    /\ heap = [o \in ObjIds |-> <<>>]
    /\ pc = [t \in Threads |-> "idle"]
    /\ update = [t \in Threads |-> NoUpdate]
    /\ history = [t \in Threads |-> None]
    /\ response = [t \in Threads |-> "none"]
    /\ typing = [t \in Threads |-> 0]
    /\ gateway = [t \in Threads |-> <<>>]
    /\ replies = [t \in Threads |-> <<>>]
    /\ errors = [t \in Threads |-> <<>>]
    /\ status = [t \in Threads |-> 0]
    /\ entered = [t \in Threads |-> <<>>]
    /\ group = [t \in Threads |-> 0]
    /\ base = [t \in Threads |-> <<>>]
    /\ appended = [u \in Users |-> <<>>]
    /\ nupd = 0
    /\ novl = 0

\* ------------------------------------------------------------ webhook
\* a new POST /webhook arrives on an idle thread: the cycle's records start empty
Accept(t, upd, next, logged, code) ==
    /\ Idle(t)
    /\ nupd < MaxUpdates
    /\ nupd' = nupd + 1
    /\ LET busy == \E o \in Threads \ {t} : ~Idle(o)
       IN /\ busy => novl < MaxOverlaps
          /\ novl' = IF busy THEN novl + 1 ELSE novl
    /\ update' = [update EXCEPT ![t] = upd]
    /\ pc' = [pc EXCEPT ![t] = next]
    /\ response' = [response EXCEPT ![t] = "none"]
    /\ typing' = [typing EXCEPT ![t] = 0]
    /\ gateway' = [gateway EXCEPT ![t] = <<>>]
    /\ replies' = [replies EXCEPT ![t] = <<>>]
    /\ errors' = [errors EXCEPT ![t] = logged]
    /\ status' = [status EXCEPT ![t] = code]
    /\ entered' = [entered EXCEPT ![t] = <<>>]
    /\ group' = [group EXCEPT ![t] = 0]
    /\ base' = [base EXCEPT ![t] = <<>>]
    /\ UNCHANGED <<shared, history, appended>>

\* get_json / Update.de_json raise on a malformed body: logged, "Error", 500
webhook_malformed(t) ==
    Accept(t, [kind |-> "malformed", user |-> "none", data |-> "none", bot |-> FALSE],
           "done",
           <<"webhook">>, 500)

\* the update parses and process_update dispatches it to the matching handler
webhook_command(t, u, c) ==
    Accept(t, [kind |-> "command", user |-> u, data |-> c, bot |-> FALSE], c, <<>>, 0)

webhook_callback(t, u, b) ==
    Accept(t, [kind |-> "callback", user |-> u, data |-> b, bot |-> FALSE], "bh_answer",
           <<>>, 0)

webhook_text(t, u, x) ==
    Accept(t, [kind |-> "text", user |-> u, data |-> x, bot |-> FALSE], "hm_mode", <<>>, 0)

\* a text message whose sender is a bot (from_user.is_bot): the MessageHandler
\* filter, filters.TEXT & ~filters.COMMAND, does not look at the sender
webhook_text_from_bot(t, u, x) ==
    Accept(t, [kind |-> "text", user |-> u, data |-> x, bot |-> TRUE], "hm_mode", <<>>, 0)

\* process_update returned: "OK", 200
webhook_return(t) ==
    /\ pc[t] = "return"
    /\ pc' = [pc EXCEPT ![t] = "done"]
    /\ status' = [status EXCEPT ![t] = 200]
    /\ UNCHANGED <<shared, update, history, response, typing, gateway, replies,
                   errors, ghost, nupd, novl>>

\* ------------------------------------------------------------ Telegram sends
\* the Bot API delivers a text unless the call fails or the text is empty or
\* too long
Delivered(text, ok) == ok /\ 1 <= CharLen(text) /\ CharLen(text) <= MAX_MESSAGE_LENGTH

\* reply_text / edit_message_text: the call is recorded; if it raises, the
\* handler ends with the exception and process_update runs the error handlers
Send(t, text, ok) ==
    /\ replies' = [replies EXCEPT ![t] = Append(@, [text |-> text,
                                                    delivered |-> Delivered(text, ok)])]
    /\ pc' = [pc EXCEPT ![t] = IF Delivered(text, ok) THEN "return" ELSE "error"]

\* ------------------------------------------------------------ handlers
\* a /start that leaves AI mode, as its "return to the main menu" text suggests
start_leaves_ai_mode(t, ok) ==
    /\ pc[t] = "start"
    /\ Send(t, "welcome", ok)
    /\ user_ai_mode' = [user_ai_mode EXCEPT ![update[t].user] = FALSE]
    /\ UNCHANGED <<user_sessions, heap, update, history, response, typing, gateway,
                   errors, status, ghost, nupd, novl>>

start(t, ok) ==
    /\ pc[t] = "start"
    /\ Send(t, "welcome", ok)
    /\ UNCHANGED <<shared, update, history, response, typing, gateway, errors,
                   status, ghost, nupd, novl>>

help_command(t, ok) ==
    /\ pc[t] = "help_command"
    /\ Send(t, "help", ok)
    /\ UNCHANGED <<shared, update, history, response, typing, gateway, errors,
                   status, ghost, nupd, novl>>

\* await query.answer()
button_handler_answer(t, ok) ==
    /\ pc[t] = "bh_answer"
    /\ pc' = [pc EXCEPT ![t] = IF ok THEN "bh_data" ELSE "error"]
    /\ UNCHANGED <<shared, update, history, response, cycle, ghost, nupd, novl>>

ButtonText(b) == CASE b = "ask_ai" -> "ai_mode_on"
                   [] b = "about" -> "about"
                   [] b = "dev_info" -> "dev_info"
                   [] b = "contact" -> "contact"
                   [] OTHER -> "none"

\* a flag kept per process instead of per user
button_handler_global_flag(t, ok) ==
    /\ pc[t] = "bh_data"
    /\ user_ai_mode' = IF update[t].data = "ask_ai" THEN [u \in Users |-> TRUE]
                                                    ELSE user_ai_mode
    /\ IF ButtonText(update[t].data) = "none"
       THEN /\ pc' = [pc EXCEPT ![t] = "return"]
            /\ UNCHANGED replies
       ELSE Send(t, ButtonText(update[t].data), ok)
    /\ UNCHANGED <<user_sessions, heap, update, history, response, typing, gateway,
                   errors, status, ghost, nupd, novl>>

\* the if/elif chain on query.data
button_handler(t, ok) ==
    /\ pc[t] = "bh_data"
    /\ user_ai_mode' = IF update[t].data = "ask_ai"
                       THEN [user_ai_mode EXCEPT ![update[t].user] = TRUE]
                       ELSE user_ai_mode
    /\ IF ButtonText(update[t].data) = "none"
       THEN /\ pc' = [pc EXCEPT ![t] = "return"]
            /\ UNCHANGED replies
       ELSE Send(t, ButtonText(update[t].data), ok)
    /\ UNCHANGED <<user_sessions, heap, update, history, response, typing, gateway,
                   errors, status, ghost, nupd, novl>>

\* logger.error(...): the handler's exception is logged, nothing is sent
error_handler(t) ==
    /\ pc[t] = "error"
    /\ errors' = [errors EXCEPT ![t] = Append(@, "handler")]
    /\ pc' = [pc EXCEPT ![t] = "return"]
    /\ UNCHANGED <<shared, update, history, response, typing, gateway, replies,
                   status, ghost, nupd, novl>>

\* a handler that calls the AI whatever the mode
handle_message_mode_ungated(t) ==
    /\ pc[t] = "hm_mode"
    /\ pc' = [pc EXCEPT ![t] = "hm_typing"]
    /\ UNCHANGED <<shared, update, history, response, cycle, ghost, nupd, novl>>

\* if user_ai_mode.get(user_id, False)
handle_message_mode(t) ==
    /\ pc[t] = "hm_mode"
    /\ pc' = [pc EXCEPT ![t] = IF user_ai_mode[update[t].user] THEN "hm_typing"
                                                               ELSE "hm_hint"]
    /\ UNCHANGED <<shared, update, history, response, cycle, ghost, nupd, novl>>

handle_message_hint(t, ok) ==
    /\ pc[t] = "hm_hint"
    /\ Send(t, START_HINT, ok)
    /\ UNCHANGED <<shared, update, history, response, typing, gateway, errors,
                   status, ghost, nupd, novl>>

\* an indicator whose failure is ignored: the handler goes on without it
handle_message_typing_ignored(t, ok) ==
    /\ pc[t] = "hm_typing"
    /\ typing' = [typing EXCEPT ![t] = IF ok THEN @ + 1 ELSE @]
    /\ pc' = [pc EXCEPT ![t] = "gar_check"]
    /\ UNCHANGED <<shared, update, history, response, gateway, replies, errors,
                   status, ghost, nupd, novl>>

\* await context.bot.send_chat_action(...)
handle_message_typing(t, ok) ==
    /\ pc[t] = "hm_typing"
    /\ typing' = [typing EXCEPT ![t] = IF ok THEN @ + 1 ELSE @]
    /\ pc' = [pc EXCEPT ![t] = IF ok THEN "gar_check" ELSE "error"]
    /\ UNCHANGED <<shared, update, history, response, gateway, replies, errors,
                   status, ghost, nupd, novl>>

\* await update.message.reply_text(response, ...)
handle_message_reply(t, ok) ==
    /\ pc[t] = "hm_reply"
    /\ Send(t, response[t], ok)
    /\ UNCHANGED <<shared, update, history, response, typing, gateway, errors,
                   status, ghost, nupd, novl>>

\* ------------------------------------------------------------ get_ai_response
\* a cap that is checked one turn too late
TooLong_late(h) == Len(h) > HISTORY_CAP + 1

\* len(history) > 10
TooLong(h) == Len(h) > HISTORY_CAP

\* history[:10], which keeps the oldest turns
Trim_oldest(h) == IF Len(h) <= HISTORY_CAP THEN h ELSE SubSeq(h, 1, HISTORY_CAP)

\* history[-10:]
Trim(h) == LastN(h, HISTORY_CAP)

\* threads inside get_ai_response for user u
Inside(u) == {o \in Threads : update[o].user = u /\ (pc[o] = "gar_new" \/ InGar(o))}

\* if user_id not in user_sessions
get_ai_response_check(t) ==
    /\ pc[t] = "gar_check"
    /\ LET u == update[t].user
           in == Inside(u)
           g == IF in = {} THEN 1 ELSE group[CHOOSE o \in in : TRUE] + 1
       IN /\ entered' = [entered EXCEPT ![t] = Stored(u)]
          /\ group' = [o \in Threads |-> IF o = t \/ o \in in THEN g ELSE group[o]]
          /\ base' = [base EXCEPT ![t] = IF in = {} THEN Stored(u)
                                         ELSE base[CHOOSE o \in in : TRUE]]
          /\ pc' = [pc EXCEPT ![t] = IF user_sessions[u] = None THEN "gar_new"
                                                                ELSE "gar_read"]
    /\ UNCHANGED <<shared, update, history, response, cycle, appended, nupd, novl>>

\* user_sessions[user_id] = []
get_ai_response_new(t) ==
    /\ pc[t] = "gar_new"
    /\ LET us == [user_sessions EXCEPT ![update[t].user] = NewObj]
       IN /\ user_sessions' = us
          /\ heap' = Collect(us, history, [heap EXCEPT ![NewObj] = <<>>])
    /\ pc' = [pc EXCEPT ![t] = "gar_read"]
    /\ UNCHANGED <<user_ai_mode, update, history, response, cycle, ghost, nupd, novl>>

\* history = user_sessions[user_id]
get_ai_response_read(t) ==
    /\ pc[t] = "gar_read"
    /\ history' = [history EXCEPT ![t] = user_sessions[update[t].user]]
    /\ pc' = [pc EXCEPT ![t] = "gar_append_user"]
    /\ UNCHANGED <<shared, update, response, cycle, ghost, nupd, novl>>

\* history.append({"role": role, "content": content})
AppendTurn(t, role, content, next) ==
    /\ heap' = [heap EXCEPT ![history[t]] = Append(@, Turn(role, content))]
    /\ appended' = [appended EXCEPT ![update[t].user] = Append(@, Turn(role, content))]
    /\ pc' = [pc EXCEPT ![t] = next]
    /\ UNCHANGED <<user_sessions, user_ai_mode, update, history, response, cycle,
                   entered, group, base, nupd, novl>>

get_ai_response_append_user(t) ==
    /\ pc[t] = "gar_append_user"
    /\ AppendTurn(t, "user", update[t].data, "gar_len_user")

\* a request built without the first trim
get_ai_response_len_user_untrimmed(t) ==
    /\ pc[t] = "gar_len_user"
    /\ pc' = [pc EXCEPT ![t] = "gar_post"]
    /\ UNCHANGED <<shared, update, history, response, cycle, ghost, nupd, novl>>

\* if len(history) > 10  (after the user turn)
get_ai_response_len_user(t) ==
    /\ pc[t] = "gar_len_user"
    /\ pc' = [pc EXCEPT ![t] = IF TooLong(heap[history[t]]) THEN "gar_trim_user"
                                                             ELSE "gar_post"]
    /\ UNCHANGED <<shared, update, history, response, cycle, ghost, nupd, novl>>

\* history = history[-10:]; user_sessions[user_id] = history
\* (`keep` tells whether the local variable outlives the step)
TrimAndStore(t, keep) ==
    LET new == NewObj
        us == [user_sessions EXCEPT ![update[t].user] = new]
        hi == [history EXCEPT ![t] = IF keep THEN new ELSE None]
    IN /\ user_sessions' = us
       /\ history' = hi
       /\ heap' = Collect(us, hi, [heap EXCEPT ![new] = Trim(heap[history[t]])])

get_ai_response_trim_user(t) ==
    /\ pc[t] = "gar_trim_user"
    /\ TrimAndStore(t, TRUE)
    /\ pc' = [pc EXCEPT ![t] = "gar_post"]
    /\ UNCHANGED <<user_ai_mode, update, response, cycle, ghost, nupd, novl>>

\* a call whose exception is not caught: a failure leaves get_ai_response raising
get_ai_response_post_raises(t, outcome) ==
    /\ pc[t] = "gar_post"
    /\ gateway' = [gateway EXCEPT ![t] = Append(@, [messages |-> heap[history[t]],
                                                    result |-> outcome])]
    /\ IF outcome \notin Failures
       THEN /\ response' = [response EXCEPT ![t] = outcome]
            /\ pc' = [pc EXCEPT ![t] = "gar_append_asst"]
            /\ UNCHANGED <<history, heap>>
       ELSE /\ response' = response
            /\ pc' = [pc EXCEPT ![t] = "error"]
            /\ history' = [history EXCEPT ![t] = None]
            /\ heap' = Collect(user_sessions, [history EXCEPT ![t] = None], heap)
    /\ UNCHANGED <<user_sessions, user_ai_mode, update, typing, replies, errors,
                   status, ghost, nupd, novl>>

\* a failure path that takes the unanswered user turn back out of the history
get_ai_response_post_rollback(t, outcome) ==
    /\ pc[t] = "gar_post"
    /\ gateway' = [gateway EXCEPT ![t] = Append(@, [messages |-> heap[history[t]],
                                                    result |-> outcome])]
    /\ IF outcome \notin Failures
       THEN /\ response' = [response EXCEPT ![t] = outcome]
            /\ pc' = [pc EXCEPT ![t] = "gar_append_asst"]
            /\ UNCHANGED <<errors, history, heap>>
       ELSE /\ response' = [response EXCEPT ![t] = FALLBACK]
            /\ errors' = [errors EXCEPT ![t] = Append(@, "gateway")]
            /\ pc' = [pc EXCEPT ![t] = "hm_reply"]
            /\ history' = [history EXCEPT ![t] = None]
            /\ heap' = Collect(user_sessions, [history EXCEPT ![t] = None],
                               [heap EXCEPT ![history[t]] = SubSeq(@, 1, Len(@) - 1)])
    /\ UNCHANGED <<user_sessions, user_ai_mode, update, typing, replies, status,
                   ghost, nupd, novl>>

\* requests.post(...), raise_for_status(), data["choices"][0]["message"]["content"];
\* on any exception: logger.error(...); return the fallback string
get_ai_response_post(t, outcome) ==
    /\ pc[t] = "gar_post"
    /\ gateway' = [gateway EXCEPT ![t] = Append(@, [messages |-> heap[history[t]],
                                                    result |-> outcome])]
    /\ IF outcome \notin Failures
       THEN /\ response' = [response EXCEPT ![t] = outcome]
            /\ pc' = [pc EXCEPT ![t] = "gar_append_asst"]
            /\ UNCHANGED <<errors, history, heap>>
       ELSE /\ response' = [response EXCEPT ![t] = FALLBACK]
            /\ errors' = [errors EXCEPT ![t] = Append(@, "gateway")]
            /\ pc' = [pc EXCEPT ![t] = "hm_reply"]
            /\ history' = [history EXCEPT ![t] = None]
            /\ heap' = Collect(user_sessions, [history EXCEPT ![t] = None], heap)
    /\ UNCHANGED <<user_sessions, user_ai_mode, update, typing, replies, status,
                   ghost, nupd, novl>>

\* a success path that forgets to record the answer
get_ai_response_append_asst_skipped(t) ==
    /\ pc[t] = "gar_append_asst"
    /\ pc' = [pc EXCEPT ![t] = "gar_len_asst"]
    /\ UNCHANGED <<shared, update, history, response, cycle, ghost, nupd, novl>>

get_ai_response_append_asst(t) ==
    /\ pc[t] = "gar_append_asst"
    /\ AppendTurn(t, "assistant", response[t], "gar_len_asst")

\* a return without the second trim
get_ai_response_len_asst_untrimmed(t) ==
    /\ pc[t] = "gar_len_asst"
    /\ pc' = [pc EXCEPT ![t] = "hm_reply"]
    /\ history' = [history EXCEPT ![t] = None]
    /\ heap' = Collect(user_sessions, [history EXCEPT ![t] = None], heap)
    /\ UNCHANGED <<user_sessions, user_ai_mode, update, response, cycle, ghost,
                   nupd, novl>>

\* if len(history) > 10  (after the assistant turn); else return assistant_msg
get_ai_response_len_asst(t) ==
    /\ pc[t] = "gar_len_asst"
    /\ IF TooLong(heap[history[t]])
       THEN /\ pc' = [pc EXCEPT ![t] = "gar_trim_asst"]
            /\ UNCHANGED <<history, heap>>
       ELSE /\ pc' = [pc EXCEPT ![t] = "hm_reply"]
            /\ history' = [history EXCEPT ![t] = None]
            /\ heap' = Collect(user_sessions, [history EXCEPT ![t] = None], heap)
    /\ UNCHANGED <<user_sessions, user_ai_mode, update, response, cycle, ghost,
                   nupd, novl>>

\* the second trim, then return assistant_msg
get_ai_response_trim_asst(t) ==
    /\ pc[t] = "gar_trim_asst"
    /\ TrimAndStore(t, FALSE)
    /\ pc' = [pc EXCEPT ![t] = "hm_reply"]
    /\ UNCHANGED <<user_ai_mode, update, response, cycle, ghost, nupd, novl>>

\* ------------------------------------------------------------ specifications
Step(t) ==
    \/ webhook_malformed(t)
    \/ \E u \in Users, c \in Commands : webhook_command(t, u, c)
    \/ \E u \in Users, b \in Buttons : webhook_callback(t, u, b)
    \/ \E u \in Users, x \in Texts : webhook_text(t, u, x)
    \/ webhook_return(t)
    \/ \E ok \in BOOLEAN : start(t, ok)
    \/ \E ok \in BOOLEAN : help_command(t, ok)
    \/ \E ok \in BOOLEAN : button_handler_answer(t, ok)
    \/ \E ok \in BOOLEAN : button_handler(t, ok)
    \/ error_handler(t)
    \/ handle_message_mode(t)
    \/ \E ok \in BOOLEAN : handle_message_hint(t, ok)
    \/ \E ok \in BOOLEAN : handle_message_typing(t, ok)
    \/ \E ok \in BOOLEAN : handle_message_reply(t, ok)
    \/ get_ai_response_check(t)
    \/ get_ai_response_new(t)
    \/ get_ai_response_read(t)
    \/ get_ai_response_append_user(t)
    \/ get_ai_response_len_user(t)
    \/ get_ai_response_trim_user(t)
    \/ \E r \in Answers \cup Failures : get_ai_response_post(t, r)
    \/ get_ai_response_append_asst(t)
    \/ get_ai_response_len_asst(t)
    \/ get_ai_response_trim_asst(t)

\* updates handled one at a time
Next == \E t \in SeqThreads : Step(t)
Spec == Init /\ [][Next]_vars

\* two server threads handling updates of one user concurrently; the Telegram
\* calls succeed, the DeepSeek call succeeds or times out
ConcUsers == {"u1"}
ConcResults == {"a1", "timeout"}
ConcStep(t) ==
    \/ \E u \in ConcUsers : webhook_callback(t, u, "ask_ai")
    \/ \E u \in ConcUsers, x \in Texts : webhook_text(t, u, x)
    \/ webhook_return(t)
    \/ button_handler_answer(t, TRUE)
    \/ button_handler(t, TRUE)
    \/ handle_message_mode(t)
    \/ handle_message_hint(t, TRUE)
    \/ handle_message_typing(t, TRUE)
    \/ handle_message_reply(t, TRUE)
    \/ get_ai_response_check(t)
    \/ get_ai_response_new(t)
    \/ get_ai_response_read(t)
    \/ get_ai_response_append_user(t)
    \/ get_ai_response_len_user(t)
    \/ get_ai_response_trim_user(t)
    \/ \E r \in ConcResults : get_ai_response_post(t, r)
    \/ get_ai_response_append_asst(t)
    \/ get_ai_response_len_asst(t)
    \/ get_ai_response_trim_asst(t)

NextConc == \E t \in Threads : ConcStep(t)
SpecConc == Init /\ [][NextConc]_vars

\* one thread, one user, with the inputs at the edge of the interface: a
\* DeepSeek answer that is empty, a text message sent by a bot
EdgeResults == {"a1", EmptyAnswer, "http_error"}
EdgeStep(t) ==
    \/ \E u \in ConcUsers : webhook_callback(t, u, "ask_ai")
    \/ \E u \in ConcUsers, x \in Texts : webhook_text(t, u, x)
    \/ \E u \in ConcUsers, x \in Texts : webhook_text_from_bot(t, u, x)
    \/ webhook_return(t)
    \/ \E ok \in BOOLEAN : button_handler_answer(t, ok)
    \/ \E ok \in BOOLEAN : button_handler(t, ok)
    \/ error_handler(t)
    \/ handle_message_mode(t)
    \/ \E ok \in BOOLEAN : handle_message_hint(t, ok)
    \/ \E ok \in BOOLEAN : handle_message_typing(t, ok)
    \/ \E ok \in BOOLEAN : handle_message_reply(t, ok)
    \/ get_ai_response_check(t)
    \/ get_ai_response_new(t)
    \/ get_ai_response_read(t)
    \/ get_ai_response_append_user(t)
    \/ get_ai_response_len_user(t)
    \/ get_ai_response_trim_user(t)
    \/ \E r \in EdgeResults : get_ai_response_post(t, r)
    \/ get_ai_response_append_asst(t)
    \/ get_ai_response_len_asst(t)
    \/ get_ai_response_trim_asst(t)

NextEdge == \E t \in SeqThreads : EdgeStep(t)
SpecEdge == Init /\ [][NextEdge]_vars

\* two server threads handling the updates of two users concurrently: button
\* presses, commands and text messages; the Telegram calls succeed, the DeepSeek
\* call succeeds or times out. Threads are interchangeable, so the updates of
\* u1 are given to thread 1 and those of u2 to thread 2: every interleaving of
\* one user's handler with the other user's handler is covered (two handlers
\* of the same user run concurrently in SpecConc)
Serves(t) == IF t = 1 THEN {"u1"} ELSE {"u2"}

IsoStep(t) ==
    \/ \E u \in Serves(t) : webhook_callback(t, u, "ask_ai")
    \/ \E u \in Serves(t), c \in Commands : webhook_command(t, u, c)
    \/ \E u \in Serves(t), x \in Texts : webhook_text(t, u, x)
    \/ webhook_return(t)
    \/ start(t, TRUE)
    \/ help_command(t, TRUE)
    \/ button_handler_answer(t, TRUE)
    \/ button_handler(t, TRUE)
    \/ handle_message_mode(t)
    \/ handle_message_hint(t, TRUE)
    \/ handle_message_typing(t, TRUE)
    \/ handle_message_reply(t, TRUE)
    \/ get_ai_response_check(t)
    \/ get_ai_response_new(t)
    \/ get_ai_response_read(t)
    \/ get_ai_response_append_user(t)
    \/ get_ai_response_len_user(t)
    \/ get_ai_response_trim_user(t)
    \/ \E r \in ConcResults : get_ai_response_post(t, r)
    \/ get_ai_response_append_asst(t)
    \/ get_ai_response_len_asst(t)
    \/ get_ai_response_trim_asst(t)

NextIso == \E t \in Threads : IsoStep(t)
SpecIso == Init /\ [][NextIso]_vars

\* ------------------------------------------------------------ properties
\* thread t has appended a turn for user u and not yet finished the trim after it
Trimming(t, u) == /\ update[t].user = u
                  /\ pc[t] \in {"gar_len_user", "gar_trim_user",
                                "gar_len_asst", "gar_trim_asst"}

Settled(u) == \A t \in Threads : ~Trimming(t, u)

\* thread t handles a text message and get_ai_response has returned
Returned(t) == /\ update[t].kind = "text"
               /\ pc[t] \in {"hm_reply", "return", "error", "done"}
               /\ gateway[t] # <<>>

Succeeded(t) == Returned(t) /\ gateway[t][1].result \in Answers
Failed(t) == Returned(t) /\ gateway[t][1].result \in Failures

UserTurn(t) == Turn("user", update[t].data)
AssistantTurn(t) == Turn("assistant", gateway[t][1].result)

\* C1: whenever no call is between an append and the trim that follows it (so,
\* after the user-turn trim, after the assistant-turn trim and after every
\* completed call, successful or failed), every user's stored history has at
\* most 10 turns.
C1_HistoryCap == \A u \in Users : Settled(u) => Len(Stored(u)) <= HISTORY_CAP

\* both trims of one cycle have cut an 11-turn list back to 10
C1_Witness == \E t \in Threads :
    /\ Succeeded(t)
    /\ Len(appended[update[t].user]) >= HISTORY_CAP + 2
    /\ Len(entered[t]) = HISTORY_CAP
    /\ Len(Stored(update[t].user)) = HISTORY_CAP

\* C2: with messages processed one after the other, the stored history of a user
\* is exactly the last 10 of all the turns appended for that user, in the order
\* of appending (all of them while there are at most 10).
C2_FifoEviction == \A u \in Users : Settled(u) => Stored(u) = LastN(appended[u], HISTORY_CAP)

\* more than 10 turns were appended and the oldest ones are gone
C2_Witness == \E u \in Users :
    /\ Len(appended[u]) > HISTORY_CAP
    /\ \A t \in Threads : Idle(t)
    /\ Stored(u) # appended[u]
    /\ Len(Stored(u)) = HISTORY_CAP

\* a user in AI mode has had a text message handled to its end
AiCycleDone(t) == /\ pc[t] = "done"
                  /\ update[t].kind = "text"
                  /\ user_ai_mode[update[t].user]

DeliveredReplies(t) == {i \in 1 .. Len(replies[t]) : replies[t][i].delivered}

\* C3: a handled text message of a user in AI mode ends with exactly one
\* outcome delivered to the user, also when the typing indicator or the reply
\* send fails.
C3_ExactlyOneOutcome == \A t \in Threads :
    AiCycleDone(t) => Cardinality(DeliveredReplies(t)) = 1

\* C4: when the DeepSeek call fails, get_ai_response returns the fallback string
\* without raising (the error handler runs only if the reply send itself fails),
\* and handle_message makes exactly one reply call, with the fallback text.
C4_GatewayFailure == \A t \in Threads : Failed(t) =>
    /\ Len(gateway[t]) = 1
    /\ response[t] = FALLBACK
    /\ pc[t] = "hm_reply" => replies[t] = <<>> /\ errors[t] = <<"gateway">>
    /\ pc[t] # "hm_reply" => /\ Len(replies[t]) = 1
                             /\ replies[t][1].text = FALLBACK
    /\ pc[t] = "error" => ~replies[t][1].delivered
    /\ pc[t] \in {"return", "done"} =>
           (errors[t] = <<"gateway">>) = replies[t][1].delivered

\* a failed call was answered with the fallback
C4_Witness == \E t \in Threads :
    /\ Failed(t)
    /\ pc[t] = "done"
    /\ gateway[t][1].result = "http_error"
    /\ replies[t] = <<[text |-> FALLBACK, delivered |-> TRUE]>>

\* C5: every reply sent for a successful DeepSeek result has at most 4096
\* characters (a longer text being sent as several replies).
C5_ReplyLength == \A t \in Threads : Succeeded(t) =>
    \A i \in 1 .. Len(replies[t]) : CharLen(replies[t][i].text) <= MAX_MESSAGE_LENGTH

\* C6: when two messages of one user are handled concurrently (their
\* get_ai_response calls overlap each other and no third call) and both DeepSeek
\* calls succeed, the final stored history is the last 10 turns of the history
\* they started from followed by all four appended turns in some order.
Injections == {f \in [1 .. 4 -> 1 .. 4] : \A i, j \in 1 .. 4 : f[i] = f[j] => i = j}
Orders(q) == {[i \in 1 .. 4 |-> q[f[i]]] : f \in Injections}

ConcurrentPair(a, b) ==
    /\ a # b
    /\ pc[a] = "done" /\ pc[b] = "done"
    /\ Succeeded(a) /\ Succeeded(b)
    /\ update[a].user = update[b].user
    /\ group[a] = 2 /\ group[b] = 2

C6_NoLostUpdates == \A a, b \in Threads : ConcurrentPair(a, b) =>
    \E o \in Orders(<<UserTurn(a), AssistantTurn(a), UserTurn(b), AssistantTurn(b)>>) :
        Stored(update[a].user) = LastN(base[a] \o o, HISTORY_CAP)

\* what a successful cycle leaves behind: one DeepSeek call after one typing
\* indicator, the two new turns at the end of the stored history (cut to the
\* cap), and one reply call whose text is the answer
CycleEffects(t) ==
    /\ Len(gateway[t]) = 1
    /\ typing[t] = 1
    /\ Stored(update[t].user) =
           LastN(entered[t] \o <<UserTurn(t), AssistantTurn(t)>>, HISTORY_CAP)
    /\ pc[t] = "hm_reply" => replies[t] = <<>>
    /\ pc[t] # "hm_reply" => /\ Len(replies[t]) = 1
                             /\ replies[t][1].text = gateway[t][1].result

\* C7 as stated: when a user in AI mode sends T and DeepSeek answers A, the
\* messages sent to DeepSeek are the history stored before the call followed by
\* the user turn T; afterwards the history ends with {user, T}, {assistant, A},
\* cut to the cap, and the reply is A.
C7_AsStated == \A t \in Threads : Succeeded(t) =>
    /\ gateway[t][1].messages = entered[t] \o <<UserTurn(t)>>
    /\ CycleEffects(t)

\* C7 (amended): when a user in AI mode sends T and DeepSeek answers A, the one
\* DeepSeek call carries the last 10 turns of (stored history, then the user turn
\* T); afterwards the stored history is the last 10 turns of (history before,
\* {user, T}, {assistant, A}); one reply call is made and its text is A.
C7_SuccessfulCycle == \A t \in Threads : Succeeded(t) =>
    /\ gateway[t][1].messages = LastN(entered[t] \o <<UserTurn(t)>>, HISTORY_CAP)
    /\ CycleEffects(t)

\* a successful cycle that started from a full history and delivered its answer
C7_Witness == \E t \in Threads :
    /\ Succeeded(t)
    /\ pc[t] = "done"
    /\ Len(entered[t]) = HISTORY_CAP
    /\ replies[t] = <<[text |-> "a1", delivered |-> TRUE]>>

\* a text message of a user who is not in AI mode is being handled
Ungated(t) == /\ ~Idle(t) \/ pc[t] = "done"
              /\ update[t].kind = "text"
              /\ ~user_ai_mode[update[t].user]

\* C8: a text message of a user whose AI-mode flag is not set causes no typing
\* indicator, no DeepSeek call and no change of user_sessions, and ends with
\* exactly one reply call, the "Please use /start" text; and DeepSeek is called
\* for a user only while that user's flag is set.
C8_Gating ==
    /\ [](\A t \in Threads : Ungated(t) =>
            /\ typing[t] = 0
            /\ gateway[t] = <<>>
            /\ pc[t] \in {"hm_mode", "hm_hint"} => replies[t] = <<>>
            /\ pc[t] \in {"return", "error", "done"} =>
                   Len(replies[t]) = 1 /\ replies[t][1].text = START_HINT)
    /\ [](\A t \in Threads : (pc[t] = "gar_post" \/ gateway[t] # <<>>) =>
            user_ai_mode[update[t].user])
    /\ [][(\E t \in Threads : Ungated(t) /\ pc[t] # "done") =>
            UNCHANGED <<user_sessions, heap, appended>>]_vars

\* the hint was the one reply to a user outside AI mode
C8_Witness == \E t \in Threads :
    /\ Ungated(t)
    /\ pc[t] = "done"
    /\ replies[t] = <<[text |-> START_HINT, delivered |-> TRUE]>>

Logged(t, what) == \E i \in 1 .. Len(errors[t]) : errors[t][i] = what

\* C9: when a step of handling a text message in AI mode raises, the user
\* receives one generic internal-error reply before the cycle is done.
C9_InternalErrorReply == \A t \in Threads :
    (AiCycleDone(t) /\ Logged(t, "handler")) =>
        \E i \in DeliveredReplies(t) : replies[t][i].text = INTERNAL_ERROR

\* C10: every POST /webhook ends with one response, 200 when the update was
\* processed and 500 when the body was malformed or its handling failed.
C10_WebhookResponse == \A t \in Threads :
    /\ pc[t] # "done" => status[t] = 0
    /\ pc[t] = "done" =>
           /\ status[t] \in {200, 500}
           /\ (status[t] = 500) = (Logged(t, "webhook") \/ Logged(t, "handler"))
\* C11: every handled text message of a user in AI mode results in exactly one
\* request to the completions endpoint, whether the request succeeds or fails.
C11_SingleDispatch == \A t \in Threads : AiCycleDone(t) => Len(gateway[t]) = 1

InGetAiResponse(t) == pc[t] \in {"gar_check", "gar_new"} \/ InGar(t)

\* C12: in one message cycle the typing indicator is emitted before the DeepSeek
\* call (no call in a cycle without an indicator), and a reply is made only
\* after the call has returned.
C12_IndicatorFirst ==
    /\ [](\A t \in Threads : (InGetAiResponse(t) \/ gateway[t] # <<>>) => typing[t] = 1)
    /\ [](\A t \in Threads : InGetAiResponse(t) => replies[t] = <<>>)
    /\ [](\A t \in Threads :
            (update[t].kind = "text" /\ typing[t] = 1 /\ replies[t] # <<>>) =>
                gateway[t] # <<>> /\ pc[t] \in {"return", "error", "done"})
    /\ [][\A t \in Threads : gateway'[t] # gateway[t] /\ gateway'[t] # <<>> =>
            typing[t] = 1 /\ replies[t] = <<>> /\ replies'[t] = <<>>]_vars

\* indicator, call and reply of one cycle, in this order
C12_Witness == \E t \in Threads :
    /\ pc[t] = "return"
    /\ typing[t] = 1
    /\ Len(gateway[t]) = 1
    /\ Len(replies[t]) = 1 /\ replies[t][1].delivered

\* C13: with messages handled one after the other, the messages array of a
\* DeepSeek request is the user's stored history at the time of the call, oldest
\* turn first: the turns stored before (the oldest dropped when the cap would be
\* exceeded) and the new user turn last; it never has more than 10 messages.
C13_RequestBody == \A t \in Threads : \A i \in 1 .. Len(gateway[t]) :
    LET m == gateway[t][i].messages
    IN /\ Len(m) <= HISTORY_CAP
       /\ Len(m) = IF Len(entered[t]) < HISTORY_CAP THEN Len(entered[t]) + 1
                                                    ELSE HISTORY_CAP
       /\ m[Len(m)] = UserTurn(t)
       /\ SubSeq(m, 1, Len(m) - 1) = LastN(entered[t], Len(m) - 1)
       /\ pc[t] = "gar_append_asst" => m = Stored(update[t].user)

\* a request of 10 messages built from a full history
C13_Witness == \E t \in Threads :
    /\ pc[t] = "gar_append_asst"
    /\ Len(entered[t]) = HISTORY_CAP
    /\ Len(gateway[t][1].messages) = HISTORY_CAP
\* C14: a 2xx response whose content is empty is treated as a failure:
\* get_ai_response returns the fallback string and appends no assistant turn.
C14_NonEmptySuccess == \A t \in Threads :
    (Returned(t) /\ gateway[t][1].result = EmptyAnswer) =>
        /\ response[t] = FALLBACK
        /\ Stored(update[t].user) = LastN(entered[t] \o <<UserTurn(t)>>, HISTORY_CAP)
\* C17: a text message whose sender is a bot is ignored: no reply, no typing
\* indicator, no DeepSeek call, no change of the history.
C17_BotIgnored == \A t \in Threads : (update[t].kind = "text" /\ update[t].bot) =>
    /\ replies[t] = <<>>
    /\ typing[t] = 0
    /\ gateway[t] = <<>>
    /\ ~InGetAiResponse(t)
\* no get_ai_response call for user u is running
Quiet(u) == \A t \in Threads : update[t].user = u => ~InGetAiResponse(t)

\* C15: however the steps of concurrent get_ai_response calls for one user
\* interleave, once all of them have finished the stored history of that user
\* has at most 10 turns.
C15_TrimUnderInterleaving == \A u \in Users : Quiet(u) => Len(Stored(u)) <= HISTORY_CAP

\* two overlapping calls whose four turns took the history over the cap have
\* finished
C15_Witness == \E a, b \in Threads :
    /\ a # b
    /\ pc[a] = "done" /\ pc[b] = "done"
    /\ update[a].user = update[b].user
    /\ group[a] = 2 /\ group[b] = 2
    /\ Len(base[a]) + 4 > HISTORY_CAP
    /\ Len(appended[update[a].user]) > HISTORY_CAP + 1
    /\ Len(Stored(update[a].user)) = HISTORY_CAP

\* every user turn of h is directly followed by an assistant turn that holds
\* the answer of one of the requests p, q to a message with that text
Paired(h, p, q) == \A i \in 1 .. Len(h) : h[i].role = "user" =>
    /\ i < Len(h)
    /\ h[i + 1].role = "assistant"
    /\ \E t \in {p, q} : update[t].data = h[i].content
                         /\ gateway[t][1].result = h[i + 1].content

\* C16: after two concurrent successful cycles of one user (started from a
\* history in which every user turn has its answer), every user turn left in
\* the stored history is directly followed by the assistant turn of its request.
C16_TurnOrder == \A a, b \in Threads :
    (ConcurrentPair(a, b) /\ Paired(base[a], a, b)) =>
        Paired(Stored(update[a].user), a, b)
Moves(t) == pc'[t] # pc[t] \/ update'[t] # update[t]

\* C19: a step of handling an update of one user, whatever the update and
\* whatever the other thread is doing, leaves the stored history and the AI-mode
\* flag of every other user as they were.
C19_Isolation == [][\A t \in Threads : Moves(t) =>
    \A b \in Users \ {update'[t].user} :
        /\ user_sessions'[b] = user_sessions[b]
        /\ Stored(b)' = Stored(b)
        /\ user_ai_mode'[b] = user_ai_mode[b]]_vars

\* two users with a history each, both inside get_ai_response at the same time
C19_Witness == \E a, b \in Threads :
    /\ update[a].user # update[b].user
    /\ pc[a] = "gar_append_asst" /\ pc[b] = "gar_append_asst"
    /\ Len(entered[a]) >= 2 /\ Len(entered[b]) >= 2

\* the request of thread t entered get_ai_response with a history whose last
\* turn is a user turn: the request before it got no assistant turn
PrevUnanswered(t) == /\ entered[t] # <<>>
                     /\ entered[t][Len(entered[t])].role = "user"

\* C20: a failed DeepSeek call leaves the user's history with exactly one more
\* turn than at entry, the user turn of the request (cut to the last 10), and no
\* assistant turn; the unanswered user turn is not taken back: the next request
\* sends it again, immediately before its own user turn.
C20_NoRollback == \A t \in Threads :
    /\ Failed(t) =>
          /\ Stored(update[t].user) =
                 LastN(entered[t] \o <<UserTurn(t)>>, HISTORY_CAP)
          /\ appended[update[t].user][Len(appended[update[t].user])] = UserTurn(t)
    /\ (gateway[t] # <<>> /\ PrevUnanswered(t)) =>
          LET m == gateway[t][1].messages
          IN  /\ Len(m) >= 2
              /\ m[Len(m) - 1] = entered[t][Len(entered[t])]
              /\ m[Len(m)] = UserTurn(t)

\* a request failed after the request before it had failed: the stored history
\* ends with two user turns in a row
C20_Witness == \E t \in Threads :
    /\ Failed(t) /\ PrevUnanswered(t)
    /\ pc[t] = "done"
    /\ LET h == Stored(update[t].user)
       IN  /\ Len(h) >= 4
           /\ h[Len(h) - 1].role = "user" /\ h[Len(h)].role = "user"
           /\ h[Len(h) - 2].role = "assistant"
====
